---- MODULE Spec2Model ----
(***************************************************************************)
(* Model of the log pipeline of projet-bigdata:                            *)
(*   mapper.py   parse_line + main : raw log line  -> "action\t1"          *)
(*   reducer.py  main              : "action\tcount" lines -> ranked totals*)
(* Text is a sequence of one-character strings, so that rstrip, strip,     *)
(* split, int(), json.loads and print are modelled by what they do.        *)
(***************************************************************************)
EXTENDS Integers, Sequences, FiniteSets, TLC

(* ------------------------------ bounds -------------------------------- *)
\* longest input stream (number of lines) given to the reducer from a file
MaxLines == 3
\* longest input stream (number of lines) given to the mapper
MaxMapLines == 2

(* ---------------------------- characters ------------------------------ *)
TAB == "\t"
NL == "\n"
CR == "\r"
QUOTE == "\""
BSLASH == "\\"
APOS == "'"
\* backspace and form feed, which JSON writes \b and \f
BKSP == "<U+0008>"
FF == "<U+000C>"
\* a lone surrogate code point (U+D800): a str may hold it, UTF-8 cannot
SURR == "<U+D800>"
\* any code point the table below does not list
OTHERCHAR == "<U+....>"

\* code points of the characters the model's texts are made of
Ord(c) ==
  CASE c = BKSP -> 8 [] c = TAB -> 9 [] c = NL -> 10 [] c = FF -> 12
    [] c = CR -> 13 [] c = " " -> 32
    [] c = QUOTE -> 34 [] c = APOS -> 39 [] c = "+" -> 43 [] c = "," -> 44 [] c = "-" -> 45
    [] c = "0" -> 48 [] c = "1" -> 49 [] c = "2" -> 50 [] c = "3" -> 51
    [] c = "4" -> 52 [] c = "5" -> 53 [] c = "6" -> 54 [] c = "7" -> 55
    [] c = "8" -> 56 [] c = "9" -> 57 [] c = ":" -> 58
    [] c = "A" -> 65 [] c = "B" -> 66 [] c = "C" -> 67 [] c = "D" -> 68
    [] c = "E" -> 69 [] c = "F" -> 70 [] c = "N" -> 78 [] c = "T" -> 84
    [] c = "[" -> 91 [] c = BSLASH -> 92 [] c = "]" -> 93 [] c = "_" -> 95
    [] c = "a" -> 97 [] c = "b" -> 98 [] c = "c" -> 99 [] c = "d" -> 100
    [] c = "e" -> 101 [] c = "f" -> 102 [] c = "i" -> 105 [] c = "l" -> 108
    [] c = "m" -> 109 [] c = "n" -> 110 [] c = "o" -> 111 [] c = "r" -> 114
    [] c = "s" -> 115 [] c = "t" -> 116 [] c = "u" -> 117 [] c = "x" -> 120
    [] c = "{" -> 123 [] c = "|" -> 124 [] c = "}" -> 125
    [] c = SURR -> 55296

Alphabet ==
  {BKSP, TAB, NL, FF, CR, " ", QUOTE, APOS, "+", ",", "-", "0", "1", "2",
   "3", "4", "5", "6", "7", "8", "9", ":", "A", "B", "C", "D", "E", "F",
   "N", "T", "[", BSLASH, "]", "_", "a", "b", "c", "d", "e", "f", "i", "l", "m",
   "n", "o", "r", "s", "t", "u", "x", "{", "|", "}", SURR}

\* chr(n)
Chr(n) ==
  IF \E c \in Alphabet : Ord(c) = n
    THEN CHOOSE c \in Alphabet : Ord(c) = n
    ELSE OTHERCHAR

Digits == {"0", "1", "2", "3", "4", "5", "6", "7", "8", "9"}

DigitVal(c) == Ord(c) - 48

\* the characters above on which str.isspace() is true
Whitespace == {" ", TAB, NL, FF, CR}

IsSpace(c) == c \in Whitespace

(* -------------------------- str operations ---------------------------- *)
\* s[:n]
Take(s, n) == SubSeq(s, 1, IF Len(s) < n THEN Len(s) ELSE n)

\* s[n:]  (n characters dropped)
Drop(s, n) == SubSeq(s, n + 1, Len(s))

RECURSIVE RstripSet(_, _)
\* s.rstrip(chars): drop trailing characters that are in the set
RstripSet(s, chars) ==
  IF s # <<>> /\ s[Len(s)] \in chars
    THEN RstripSet(SubSeq(s, 1, Len(s) - 1), chars)
    ELSE s

RECURSIVE LstripSpace(_)
LstripSpace(s) ==
  IF s # <<>> /\ IsSpace(Head(s)) THEN LstripSpace(Tail(s)) ELSE s

\* s.strip(): drop leading and trailing whitespace
Strip(s) == LstripSpace(RstripSet(s, Whitespace))

RECURSIVE Find(_, _, _)
\* index (1-based) of the first sep at or after position i, 0 when none
Find(s, sep, i) ==
  IF i > Len(s) THEN 0
  ELSE IF s[i] = sep THEN i
  ELSE Find(s, sep, i + 1)

RECURSIVE SplitFrom(_, _, _, _, _)
\* the fields of s from position i on: cur is the field being read, done
\* the fields already closed by a separator
SplitFrom(s, sep, i, cur, done) ==
  IF i > Len(s) THEN Append(done, cur)
  ELSE IF s[i] = sep THEN SplitFrom(s, sep, i + 1, <<>>, Append(done, cur))
  ELSE SplitFrom(s, sep, i + 1, Append(cur, s[i]), done)

\* s.split(sep): every field between separators, empty ones included
Split(s, sep) == SplitFrom(s, sep, 1, <<>>, <<>>)

\* s.split(sep, 1): at most one split, at the first separator
SplitOnce(s, sep) ==
  LET i == Find(s, sep, 1)
  IN IF i = 0 THEN <<s>> ELSE <<SubSeq(s, 1, i - 1), Drop(s, i)>>

RECURSIVE StrLess(_, _)
\* a < b on str: lexicographic by code point, a proper prefix is smaller
StrLess(a, b) ==
  IF b = <<>> THEN FALSE
  ELSE IF a = <<>> THEN TRUE
  ELSE IF Head(a) = Head(b) THEN StrLess(Tail(a), Tail(b))
  ELSE Ord(Head(a)) < Ord(Head(b))

(* ------------------------------ int() --------------------------------- *)
\* digits with single underscores between them
RECURSIVE DigitsOk(_, _)
DigitsOk(s, prevDigit) ==
  IF s = <<>> THEN prevDigit
  ELSE IF Head(s) \in Digits THEN DigitsOk(Tail(s), TRUE)
  ELSE IF Head(s) = "_" THEN prevDigit /\ DigitsOk(Tail(s), FALSE)
  ELSE FALSE

Unsigned(s) == IF s # <<>> /\ Head(s) \in {"+", "-"} THEN Tail(s) ELSE s

\* whether int(s) returns (TRUE) or raises ValueError (FALSE)
IsIntText(s) ==
  LET t == Strip(s) IN Unsigned(t) # <<>> /\ DigitsOk(Unsigned(t), FALSE)

RECURSIVE DigitsValue(_, _)
DigitsValue(s, acc) ==
  IF s = <<>> THEN acc
  ELSE IF Head(s) = "_" THEN DigitsValue(Tail(s), acc)
  ELSE DigitsValue(Tail(s), 10 * acc + DigitVal(Head(s)))

\* int(s) for a text on which it does not raise; Python ints do not overflow
IntValue(s) ==
  LET t == Strip(s)
      m == DigitsValue(Unsigned(t), 0)
  IN IF t # <<>> /\ Head(t) = "-" THEN 0 - m ELSE m

\* str(n) for an int
RECURSIVE NatDigits(_)
NatDigits(n) ==
  IF n < 10 THEN <<Chr(48 + n)>>
  ELSE NatDigits(n \div 10) \o <<Chr(48 + (n % 10))>>

IntToStr(n) == IF n < 0 THEN <<"-">> \o NatDigits(0 - n) ELSE NatDigits(n)

(* --------------------------- json.loads ------------------------------- *)
\* A decoded value: t is its Python type; s the text of a str; n the value
\* of an int (1/0 for True/False); items the elements of a list, or the
\* <<key, value>> members of a dict in document order.
\* The decoder covers JSON but for fractions, exponents and the literals
\* NaN/Infinity, none of which occur in the lines of this model.
JVal(t, str, n, items) == [t |-> t, s |-> str, n |-> n, items |-> items]

JNone == JVal("NoneType", <<>>, 0, <<>>)

JFail == [ok |-> FALSE, val |-> JNone, pos |-> 0]

JOk(v, p) == [ok |-> TRUE, val |-> v, pos |-> p]

\* the whitespace json skips between tokens
JsonSpace == {" ", TAB, NL, CR}

RECURSIVE SkipWs(_, _)
SkipWs(s, i) ==
  IF i <= Len(s) /\ s[i] \in JsonSpace THEN SkipWs(s, i + 1) ELSE i

HexDigits == Digits \cup {"a", "b", "c", "d", "e", "f"}
                    \cup {"A", "B", "C", "D", "E", "F"}

HexVal(c) ==
  IF c \in Digits THEN DigitVal(c)
  ELSE IF Ord(c) >= 97 THEN Ord(c) - 87
  ELSE Ord(c) - 55

\* whether s[i..i+3] are four hex digits, and their value
IsHex4(s, i) == i + 3 <= Len(s) /\ \A j \in i..(i + 3) : s[j] \in HexDigits

Hex4(s, i) ==
  4096 * HexVal(s[i]) + 256 * HexVal(s[i + 1])
    + 16 * HexVal(s[i + 2]) + HexVal(s[i + 3])

\* a \uXXXX escape of a low surrogate at position i
IsLowSurrogateEscape(s, i) ==
  /\ i + 1 <= Len(s) /\ s[i] = BSLASH /\ s[i + 1] = "u"
  /\ IsHex4(s, i + 2)
  /\ Hex4(s, i + 2) >= 56320 /\ Hex4(s, i + 2) <= 57343

RECURSIVE ScanString(_, _, _)
\* the characters of a JSON string whose opening quote precedes position i
ScanString(s, i, acc) ==
  IF i > Len(s) THEN JFail
  ELSE IF s[i] = QUOTE THEN JOk(JVal("str", acc, 0, <<>>), i + 1)
  ELSE IF s[i] = BSLASH THEN
    IF i + 1 > Len(s) THEN JFail
    ELSE IF s[i + 1] = QUOTE THEN ScanString(s, i + 2, Append(acc, QUOTE))
    ELSE IF s[i + 1] = BSLASH THEN ScanString(s, i + 2, Append(acc, BSLASH))
    ELSE IF s[i + 1] = "b" THEN ScanString(s, i + 2, Append(acc, BKSP))
    ELSE IF s[i + 1] = "f" THEN ScanString(s, i + 2, Append(acc, FF))
    ELSE IF s[i + 1] = "n" THEN ScanString(s, i + 2, Append(acc, NL))
    ELSE IF s[i + 1] = "r" THEN ScanString(s, i + 2, Append(acc, CR))
    ELSE IF s[i + 1] = "t" THEN ScanString(s, i + 2, Append(acc, TAB))
    ELSE IF s[i + 1] = "u" THEN
      IF ~IsHex4(s, i + 2) THEN JFail
      ELSE LET hi == Hex4(s, i + 2)
           IN IF hi >= 55296 /\ hi <= 56319 /\ IsLowSurrogateEscape(s, i + 6)
                THEN ScanString(s, i + 12,
                       Append(acc, Chr(65536 + (hi - 55296) * 1024
                                         + (Hex4(s, i + 8) - 56320))))
                ELSE ScanString(s, i + 6, Append(acc, Chr(hi)))
    ELSE JFail
  ELSE IF Ord(s[i]) < 32 THEN JFail
  ELSE ScanString(s, i + 1, Append(acc, s[i]))

RECURSIVE ScanDigits(_, _)
\* the position after the run of digits that starts at i
ScanDigits(s, i) ==
  IF i <= Len(s) /\ s[i] \in Digits THEN ScanDigits(s, i + 1) ELSE i

\* -?(0|[1-9][0-9]*) at position i
ScanNumber(s, i) ==
  LET d == IF s[i] = "-" THEN i + 1 ELSE i
      e == IF d <= Len(s) /\ s[d] = "0" THEN d + 1 ELSE ScanDigits(s, d)
  IN IF e = d THEN JFail
     ELSE JOk(JVal("int", <<>>, IntValue(SubSeq(s, i, e - 1)), <<>>), e)

\* whether the word w stands at position i
StartsWith(s, i, w) == i + Len(w) - 1 <= Len(s) /\ SubSeq(s, i, i + Len(w) - 1) = w

\* the one element of a singleton set: The({F(x) : x \in {e}}) evaluates e
\* once and names its value x in F
The(S) == CHOOSE x \in S : TRUE

RECURSIVE ScanValue(_, _)
RECURSIVE ScanMembers(_, _, _)
RECURSIVE MemberValue(_, _, _, _)
RECURSIVE MemberEnd(_, _, _)
RECURSIVE ScanElements(_, _, _)
RECURSIVE ElementEnd(_, _, _)

\* the members of an object after "{" or ",": i is at the next key's quote
ScanMembers(s, i, acc) ==
  IF i > Len(s) \/ s[i] # QUOTE THEN JFail
  ELSE The({ IF ~k.ok THEN JFail
             ELSE MemberValue(s, SkipWs(s, k.pos), k.val.s, acc) :
             k \in {ScanString(s, i + 1, <<>>)} })

\* after a member's name: the ":" at position c, then the member's value
MemberValue(s, c, name, acc) ==
  IF c > Len(s) \/ s[c] # ":" THEN JFail
  ELSE The({ IF ~v.ok THEN JFail
             ELSE MemberEnd(s, SkipWs(s, v.pos), Append(acc, <<name, v.val>>)) :
             v \in {ScanValue(s, SkipWs(s, c + 1))} })

\* after a member's value: "}" ends the object, "," brings the next member
MemberEnd(s, e, more) ==
  IF e > Len(s) THEN JFail
  ELSE IF s[e] = "}" THEN JOk(JVal("dict", <<>>, 0, more), e + 1)
  ELSE IF s[e] = "," THEN ScanMembers(s, SkipWs(s, e + 1), more)
  ELSE JFail

\* the elements of an array after "[" or ",": i is at the next value
ScanElements(s, i, acc) ==
  The({ IF ~v.ok THEN JFail
        ELSE ElementEnd(s, SkipWs(s, v.pos), Append(acc, v.val)) :
        v \in {ScanValue(s, i)} })

\* after an element: "]" ends the array, "," brings the next element
ElementEnd(s, e, more) ==
  IF e > Len(s) THEN JFail
  ELSE IF s[e] = "]" THEN JOk(JVal("list", <<>>, 0, more), e + 1)
  ELSE IF s[e] = "," THEN ScanElements(s, SkipWs(s, e + 1), more)
  ELSE JFail

\* the JSON value that starts at position i
ScanValue(s, i) ==
  IF i > Len(s) THEN JFail
  ELSE IF s[i] = QUOTE THEN ScanString(s, i + 1, <<>>)
  ELSE IF s[i] = "{" THEN
    IF SkipWs(s, i + 1) <= Len(s) /\ s[SkipWs(s, i + 1)] = "}"
      THEN JOk(JVal("dict", <<>>, 0, <<>>), SkipWs(s, i + 1) + 1)
      ELSE ScanMembers(s, SkipWs(s, i + 1), <<>>)
  ELSE IF s[i] = "[" THEN
    IF SkipWs(s, i + 1) <= Len(s) /\ s[SkipWs(s, i + 1)] = "]"
      THEN JOk(JVal("list", <<>>, 0, <<>>), SkipWs(s, i + 1) + 1)
      ELSE ScanElements(s, SkipWs(s, i + 1), <<>>)
  ELSE IF StartsWith(s, i, <<"n", "u", "l", "l">>) THEN JOk(JNone, i + 4)
  ELSE IF StartsWith(s, i, <<"t", "r", "u", "e">>)
    THEN JOk(JVal("bool", <<>>, 1, <<>>), i + 4)
  ELSE IF StartsWith(s, i, <<"f", "a", "l", "s", "e">>)
    THEN JOk(JVal("bool", <<>>, 0, <<>>), i + 5)
  ELSE IF s[i] = "-" \/ s[i] \in Digits THEN ScanNumber(s, i)
  ELSE JFail

\* json.loads(s): one value between optional whitespace, nothing after it;
\* ok = FALSE stands for JSONDecodeError
JsonLoads(s) ==
  The({ IF v.ok /\ SkipWs(s, v.pos) = Len(s) + 1 THEN v ELSE JFail :
        v \in {ScanValue(s, SkipWs(s, 1))} })

RECURSIVE DictGet(_, _)
\* obj.get(k): the value of the last member named k, None when there is none
DictGet(members, k) ==
  IF members = <<>> THEN JNone
  ELSE IF members[Len(members)][1] = k THEN members[Len(members)][2]
  ELSE DictGet(SubSeq(members, 1, Len(members) - 1), k)

\* bool(v)
Truthy(v) ==
  CASE v.t = "str" -> v.s # <<>>
    [] v.t = "int" -> v.n # 0
    [] v.t = "bool" -> v.n = 1
    [] v.t = "NoneType" -> FALSE
    [] OTHER -> v.items # <<>>

(* --------------------------- str() / repr() --------------------------- *)
RECURSIVE EscapeRepr(_, _)
\* the body of repr(s) between its quotes q
EscapeRepr(s, q) ==
  IF s = <<>> THEN <<>>
  ELSE (CASE Head(s) = BSLASH -> <<BSLASH, BSLASH>>
          [] Head(s) = q -> <<BSLASH, q>>
          [] Head(s) = TAB -> <<BSLASH, "t">>
          [] Head(s) = NL -> <<BSLASH, "n">>
          [] Head(s) = CR -> <<BSLASH, "r">>
          [] Head(s) = BKSP -> <<BSLASH, "x", "0", "8">>
          [] Head(s) = FF -> <<BSLASH, "x", "0", "c">>
          [] Head(s) = SURR -> <<BSLASH, "u", "d", "8", "0", "0">>
          [] OTHER -> <<Head(s)>>)
       \o EscapeRepr(Tail(s), q)

\* repr(s) for a str: single quotes, unless it holds one and no double quote
ReprStr(s) ==
  LET q == IF Find(s, APOS, 1) # 0 /\ Find(s, QUOTE, 1) = 0 THEN QUOTE ELSE APOS
  IN <<q>> \o EscapeRepr(s, q) \o <<q>>

RECURSIVE DictKeys(_, _)
\* the keys of a dict in insertion order (a repeated member keeps its place)
DictKeys(members, seen) ==
  IF members = <<>> THEN seen
  ELSE DictKeys(Tail(members),
         IF \E i \in 1..Len(seen) : seen[i] = Head(members)[1]
           THEN seen ELSE Append(seen, Head(members)[1]))

RECURSIVE Repr(_)
RECURSIVE ReprList(_)
RECURSIVE ReprDict(_, _)

ReprList(items) ==
  IF items = <<>> THEN <<>>
  ELSE Repr(Head(items))
       \o (IF Len(items) > 1 THEN <<",", " ">> ELSE <<>>)
       \o ReprList(Tail(items))

ReprDict(keys, members) ==
  IF keys = <<>> THEN <<>>
  ELSE ReprStr(Head(keys)) \o <<":", " ">> \o Repr(DictGet(members, Head(keys)))
       \o (IF Len(keys) > 1 THEN <<",", " ">> ELSE <<>>)
       \o ReprDict(Tail(keys), members)

\* repr(v)
Repr(v) ==
  CASE v.t = "str" -> ReprStr(v.s)
    [] v.t = "int" -> IntToStr(v.n)
    [] v.t = "bool" -> IF v.n = 1 THEN <<"T", "r", "u", "e">>
                                  ELSE <<"F", "a", "l", "s", "e">>
    [] v.t = "NoneType" -> <<"N", "o", "n", "e">>
    [] v.t = "list" -> <<"[">> \o ReprList(v.items) \o <<"]">>
    [] OTHER -> <<"{">> \o ReprDict(DictKeys(v.items, <<>>), v.items) \o <<"}">>

\* str(v)
Str(v) == IF v.t = "str" THEN v.s ELSE Repr(v)

(* ------------------------------ mapper -------------------------------- *)
\* Action is the 4th field (0-based index 3) for pipe format
ACTION_INDEX == 3

\* what parse_line returns: ok = FALSE stands for None
None == [ok |-> FALSE, key |-> <<>>]

Some(k) == [ok |-> TRUE, key |-> k]

\* the pipe-separated fallback of parse_line
ParsePipe(line) ==
  LET raw == Split(line, "|")
      parts == [i \in 1..Len(raw) |-> Strip(raw[i])]
  IN IF Len(parts) <= ACTION_INDEX THEN None
     ELSE LET a == Strip(parts[ACTION_INDEX + 1])
          IN IF a # <<>> THEN Some(a) ELSE None

\* the name of the field parse_line reads
ActionField == <<"a", "c", "t", "i", "o", "n">>

\* the JSON attempt of parse_line: the key when the line decodes to a dict
\* whose "action" is truthy, None when the code falls through to the pipe
\* format (JSONDecodeError, not a dict, "action" missing or falsy)
ParseJson(line) ==
  The({ IF obj.ok /\ obj.val.t = "dict"
             /\ Truthy(DictGet(obj.val.items, ActionField))
          THEN Some(Strip(Str(DictGet(obj.val.items, ActionField))))
          ELSE None :
        obj \in {JsonLoads(line)} })

\* parse_line on a line whose terminator has been stripped
ParseStripped(line) ==
  IF line = <<>> THEN None
  ELSE The({ IF structured.ok THEN structured ELSE ParsePipe(line) :
             structured \in {ParseJson(line)} })

parse_line(raw) ==
  The({ ParseStripped(line) : line \in {RstripSet(raw, {CR, NL})} })

\* whether sys.stdout (UTF-8, errors="strict") can encode the text
Encodable(text) == \A i \in 1..Len(text) : text[i] # SURR

(* ------------------------------ state --------------------------------- *)
VARIABLES
  m_stdin,   \* mapper: the lines of sys.stdin, each with its terminator
  m_pos,     \* mapper: lines consumed by the for loop
  m_pc,      \* mapper: "run" | "done" | "off"
  action,    \* mapper: main's local `action` after the last parse_line call
  m_stdout,  \* mapper: characters written to sys.stdout
  m_stderr,  \* mapper: diagnostics written to sys.stderr, one per print call
  r_stdin,   \* reducer: the lines of sys.stdin, each with its terminator
  r_pos,     \* reducer: lines consumed by the for loop
  r_pc,      \* reducer: "wait" | "read" | "emit" | "done" | "crashed"
  counts,    \* reducer: the dict, as its items in insertion order
  ranked,    \* reducer: items of sorted(...) not yet printed
  r_stdout,  \* reducer: entries written to sys.stdout
  r_stderr   \* reducer: diagnostics written to sys.stderr

m_vars == <<m_stdin, m_pos, m_pc, action, m_stdout, m_stderr>>
r_vars == <<r_stdin, r_pos, r_pc, counts, ranked, r_stdout, r_stderr>>
vars == <<m_stdin, m_pos, m_pc, action, m_stdout, m_stderr,
          r_stdin, r_pos, r_pc, counts, ranked, r_stdout, r_stderr>>

\* line[:80] in both stages' diagnostics
PreviewLen == 80

(* -------------------------- mapper: main ------------------------------ *)
\* an iteration on a line parse_line rejects: one diagnostic, no output
MSkip ==
  /\ m_pc = "run"
  /\ m_pos < Len(m_stdin)
  /\ \E res \in {parse_line(m_stdin[m_pos + 1])} :
       /\ ~res.ok
       /\ action' = res
       /\ m_stderr' = Append(m_stderr,
                        [tag |-> "mapper: skip malformed line",
                         preview |-> Take(m_stdin[m_pos + 1], PreviewLen)])
  /\ m_pos' = m_pos + 1
  /\ UNCHANGED <<m_stdin, m_pc, m_stdout>>
  /\ UNCHANGED r_vars

\* an iteration on a line with a key: print(action, "1", sep="\t")
MEmit ==
  /\ m_pc = "run"
  /\ m_pos < Len(m_stdin)
  /\ \E res \in {parse_line(m_stdin[m_pos + 1])} :
       /\ res.ok
       /\ Encodable(res.key)
       /\ action' = res
       /\ m_stdout' = m_stdout \o res.key \o <<TAB, "1", NL>>
  /\ m_pos' = m_pos + 1
  /\ UNCHANGED <<m_stdin, m_pc, m_stderr>>
  /\ UNCHANGED r_vars

\* an iteration whose print raises (UnicodeEncodeError on the key, before
\* anything of the pair is written): `except Exception` reports and goes on
MError ==
  /\ m_pc = "run"
  /\ m_pos < Len(m_stdin)
  /\ \E res \in {parse_line(m_stdin[m_pos + 1])} :
       /\ res.ok
       /\ ~Encodable(res.key)
       /\ action' = res
       /\ m_stderr' = Append(m_stderr,
                        [tag |-> "mapper error: 'utf-8' codec can't encode",
                         preview |-> <<>>])
  /\ m_pos' = m_pos + 1
  /\ UNCHANGED <<m_stdin, m_pc, m_stdout>>
  /\ UNCHANGED r_vars

\* end of input: the for loop ends and main returns
MEof ==
  /\ m_pc = "run"
  /\ m_pos = Len(m_stdin)
  /\ m_pc' = "done"
  /\ UNCHANGED <<m_stdin, m_pos, action, m_stdout, m_stderr>>
  /\ UNCHANGED r_vars

(* ----------------------------- reducer -------------------------------- *)
RECURSIVE SplitLines(_)
\* the lines `for line in sys.stdin` yields for a text: each ends at its
\* "\n", kept; a last piece without one is a line too
SplitLines(text) ==
  LET i == Find(text, NL, 1)
  IN IF text = <<>> THEN <<>>
     ELSE IF i = 0 THEN <<text>>
     ELSE <<SubSeq(text, 1, i)>> \o SplitLines(Drop(text, i))

\* mapper | reducer: the reducer's sys.stdin is what the mapper wrote
Pipe ==
  /\ m_pc = "done"
  /\ r_pc = "wait"
  /\ r_stdin' = SplitLines(m_stdout)
  /\ r_pc' = "read"
  /\ UNCHANGED <<r_pos, counts, ranked, r_stdout, r_stderr>>
  /\ UNCHANGED m_vars

\* index of key k in the dict's items, 0 when absent
RECURSIVE KeyIndex(_, _, _)
KeyIndex(items, k, i) ==
  IF i > Len(items) THEN 0
  ELSE IF items[i].key = k THEN i
  ELSE KeyIndex(items, k, i + 1)

\* a slip of AddCount: the count is assigned, not added
AddCountAssign(items, k, n) ==
  LET i == KeyIndex(items, k, 1)
  IN IF i = 0 THEN Append(items, [key |-> k, total |-> n])
     ELSE [items EXCEPT ![i].total = n]

\* counts[action] += count on a defaultdict(int): a missing key starts at 0
\* and is appended (a dict keeps insertion order)
AddCount(items, k, n) ==
  LET i == KeyIndex(items, k, 1)
  IN IF i = 0 THEN Append(items, [key |-> k, total |-> 0 + n])
     ELSE [items EXCEPT ![i].total = @ + n]

\* a slip of ReduceLine: counts[action] is read before int(value) is tried,
\* so the defaultdict creates the entry even when the count does not parse
ReduceLineTouch(items, raw) ==
  LET line == RstripSet(raw, {CR, NL})
      parts == SplitOnce(line, TAB)
      k == Strip(parts[1])
      value == Strip(parts[2])
  IN IF line = <<>> THEN [counts |-> items, diag |-> <<>>]
     ELSE IF Len(parts) # 2
       THEN [counts |-> items,
             diag |-> <<[tag |-> "reducer: skip malformed line",
                         preview |-> Take(line, PreviewLen)]>>]
     ELSE IF k = <<>> THEN [counts |-> items, diag |-> <<>>]
     ELSE IF IsIntText(value)
       THEN [counts |-> AddCount(items, k, IntValue(value)), diag |-> <<>>]
     ELSE [counts |-> AddCount(items, k, 0),
           diag |-> <<[tag |-> "reducer: skip non-integer count",
                       preview |-> Take(line, PreviewLen)]>>]

\* the body of the reducer's for loop on one line: the dict afterwards and
\* the diagnostics printed (none or one)
ReduceLine(items, raw) ==
  LET line == RstripSet(raw, {CR, NL})
      parts == SplitOnce(line, TAB)
      k == Strip(parts[1])
      value == Strip(parts[2])
  IN IF line = <<>> THEN [counts |-> items, diag |-> <<>>]
     ELSE IF Len(parts) # 2
       THEN [counts |-> items,
             diag |-> <<[tag |-> "reducer: skip malformed line",
                         preview |-> Take(line, PreviewLen)]>>]
     ELSE IF k = <<>> THEN [counts |-> items, diag |-> <<>>]
     ELSE IF IsIntText(value)
       THEN [counts |-> AddCount(items, k, IntValue(value)), diag |-> <<>>]
     ELSE [counts |-> items,
           diag |-> <<[tag |-> "reducer: skip non-integer count",
                       preview |-> Take(line, PreviewLen)]>>]

\* a slip of the sort key: x[1] not negated, totals ascending
SortKeyLessAscending(x, y) ==
  LET kx == <<x.total, x.key>>
      ky == <<y.total, y.key>>
  IN kx[1] < ky[1] \/ (kx[1] = ky[1] /\ StrLess(kx[2], ky[2]))

\* a slip of the sort key: -x[1] alone, ties left in dict order
SortKeyLessNoTie(x, y) == 0 - x.total < 0 - y.total

\* the sort key (-x[1], x[0]) compared as Python compares tuples
SortKeyLess(x, y) ==
  LET kx == <<0 - x.total, x.key>>
      ky == <<0 - y.total, y.key>>
  IN kx[1] < ky[1] \/ (kx[1] = ky[1] /\ StrLess(kx[2], ky[2]))

\* stable insertion: x goes before the first element whose key is greater
RECURSIVE InsertSorted(_, _)
InsertSorted(x, s) ==
  IF s = <<>> THEN <<x>>
  ELSE IF SortKeyLess(x, Head(s)) THEN <<x>> \o s
  ELSE <<Head(s)>> \o InsertSorted(x, Tail(s))

\* sorted(counts.items(), key=...): a stable sort of the items
RECURSIVE Sorted(_)
Sorted(items) ==
  IF items = <<>> THEN <<>>
  ELSE InsertSorted(items[Len(items)], Sorted(SubSeq(items, 1, Len(items) - 1)))

\* a slip of RRead: the running dict is printed as the lines are read
RReadStreaming ==
  /\ r_pc = "read"
  /\ r_pos < Len(r_stdin)
  /\ LET res == ReduceLine(counts, r_stdin[r_pos + 1])
     IN /\ counts' = res.counts
        /\ r_stderr' = r_stderr \o res.diag
        /\ r_stdout' = res.counts
  /\ r_pos' = r_pos + 1
  /\ UNCHANGED <<r_stdin, r_pc, ranked>>
  /\ UNCHANGED m_vars

\* one iteration of `for line in sys.stdin`
RRead ==
  /\ r_pc = "read"
  /\ r_pos < Len(r_stdin)
  /\ LET res == ReduceLine(counts, r_stdin[r_pos + 1])
     IN /\ counts' = res.counts
        /\ r_stderr' = r_stderr \o res.diag
  /\ r_pos' = r_pos + 1
  /\ UNCHANGED <<r_stdin, r_pc, ranked, r_stdout>>
  /\ UNCHANGED m_vars

\* the read of sys.stdin raises (the for statement is outside every try):
\* the exception leaves main and the process ends
RReadFail ==
  /\ r_pc = "read"
  /\ r_pc' = "crashed"
  /\ UNCHANGED <<r_stdin, r_pos, counts, ranked, r_stdout, r_stderr>>
  /\ UNCHANGED m_vars

\* end of input: sorted(...) is evaluated once, before the first print
REof ==
  /\ r_pc = "read"
  /\ r_pos = Len(r_stdin)
  /\ ranked' = Sorted(counts)
  /\ r_pc' = "emit"
  /\ UNCHANGED <<r_stdin, r_pos, counts, r_stdout, r_stderr>>
  /\ UNCHANGED m_vars

\* print(action, total, sep="\t") for the next item
REmit ==
  /\ r_pc = "emit"
  /\ ranked # <<>>
  /\ r_stdout' = Append(r_stdout, Head(ranked))
  /\ ranked' = Tail(ranked)
  /\ UNCHANGED <<r_stdin, r_pos, r_pc, counts, r_stderr>>
  /\ UNCHANGED m_vars

\* the output loop is exhausted: main returns
RExit ==
  /\ r_pc = "emit"
  /\ ranked = <<>>
  /\ r_pc' = "done"
  /\ UNCHANGED <<r_stdin, r_pos, counts, ranked, r_stdout, r_stderr>>
  /\ UNCHANGED m_vars

\* reducer.main as a function of its whole input: the entries it prints
RECURSIVE FoldLines(_, _)
FoldLines(items, lines) ==
  IF lines = <<>> THEN items
  ELSE FoldLines(ReduceLine(items, Head(lines)).counts, Tail(lines))

ReducerOutput(lines) == Sorted(FoldLines(<<>>, lines))

(* ------------------- the reducer fed from a file ---------------------- *)
\* "key<TAB>value<NL>"
Pair(k, v) == k \o <<TAB>> \o v \o <<NL>>

\* the lines the reducer's input streams are drawn from
RedLines ==
  { Pair(<<"A">>, <<"1">>),
    Pair(<<"B">>, <<"1">>),
    Pair(<<"B">>, <<"2">>),
    Pair(<<"A", "B">>, <<"1">>),
    Pair(<<" ", "A", " ">>, <<" ", "2", " ">>),
    Pair(<<"A">>, <<"-", "1">>),
    Pair(<<"A">>, <<"0">>),
    Pair(<<"B">>, <<"x">>),
    Pair(<<" ">>, <<"x">>),
    Pair(<<"A">>, <<"1", TAB, "2">>),
    <<"A", NL>>,
    <<NL>>,
    <<"B", TAB, "+", "1", "_", "0", CR, NL>> }

Streams(S, n) == UNION {[1..k -> S] : k \in 0..n}

InitReduce ==
  /\ m_stdin = <<>> /\ m_pos = 0 /\ m_pc = "off"
  /\ action = None
  /\ m_stdout = <<>> /\ m_stderr = <<>>
  /\ r_stdin \in Streams(RedLines, MaxLines)
  /\ r_pos = 0 /\ r_pc = "read"
  /\ counts = <<>> /\ ranked = <<>>
  /\ r_stdout = <<>> /\ r_stderr = <<>>

NextReduce == RRead \/ RReadFail \/ REof \/ REmit \/ RExit

SpecReduce == InitReduce /\ [][NextReduce]_vars

(* ------------------------ claims: the reducer ------------------------- *)
\* what the claims call a line: the text without its terminator
Content(raw) == RstripSet(raw, {CR, NL})

HasTab(l) == \E i \in 1..Len(l) : l[i] = TAB

\* the key part and the value part around the first tab, trimmed
KeyPart(l) == Strip(SubSeq(l, 1, Find(l, TAB, 1) - 1))
ValuePart(l) == Strip(SubSeq(l, Find(l, TAB, 1) + 1, Len(l)))

\* an accepted line: key part and value part, the key non-empty, the value
\* an integer
Accepted(raw) ==
  LET l == Content(raw)
  IN HasTab(l) /\ KeyPart(l) # <<>> /\ IsIntText(ValuePart(l))

RECURSIVE SumFor(_, _)
\* the sum of the values of the accepted lines that carry key k
SumFor(k, lines) ==
  IF lines = <<>> THEN 0
  ELSE (IF Accepted(Head(lines)) /\ KeyPart(Content(Head(lines))) = k
          THEN IntValue(ValuePart(Content(Head(lines)))) ELSE 0)
       + SumFor(k, Tail(lines))

AcceptedKeys(lines) ==
  {KeyPart(Content(lines[i])) : i \in {j \in 1..Len(lines) : Accepted(lines[j])}}

RemoveAt(s, i) == SubSeq(s, 1, i - 1) \o SubSeq(s, i + 1, Len(s))

\* C1: the entries the reducer writes are totally ordered: of two
\* consecutive entries the first has the greater total, or the same total
\* and the lexicographically smaller key; no key is written twice.
C1_OutputRanked ==
  /\ \A i \in 1..(Len(r_stdout) - 1) :
       \/ r_stdout[i].total > r_stdout[i + 1].total
       \/ /\ r_stdout[i].total = r_stdout[i + 1].total
          /\ StrLess(r_stdout[i].key, r_stdout[i + 1].key)
  /\ \A i, j \in 1..Len(r_stdout) :
       r_stdout[i].key = r_stdout[j].key => i = j

\* a finished run that wrote a tie and a strict descent, from a dict whose
\* insertion order was another
C1_Witness ==
  /\ r_pc = "done"
  /\ counts # r_stdout
  /\ \E i \in 1..(Len(r_stdout) - 1) : r_stdout[i].total = r_stdout[i + 1].total
  /\ \E i \in 1..(Len(r_stdout) - 1) : r_stdout[i].total > r_stdout[i + 1].total

\* C2: at the end the reducer has written exactly one entry per key of an
\* accepted line, with the sum of the values of the accepted lines carrying
\* that key, and no other entry.
C2_TotalsAreSums ==
  r_pc = "done" =>
    /\ {r_stdout[i].key : i \in 1..Len(r_stdout)} = AcceptedKeys(r_stdin)
    /\ Len(r_stdout) = Cardinality(AcceptedKeys(r_stdin))
    /\ \A i \in 1..Len(r_stdout) :
         r_stdout[i].total = SumFor(r_stdout[i].key, r_stdin)

\* a finished run with a key summed over two accepted lines and a line that
\* was not accepted
C2_Witness ==
  /\ r_pc = "done"
  /\ \E i, j \in 1..Len(r_stdin) :
       /\ i < j /\ Accepted(r_stdin[i]) /\ Accepted(r_stdin[j])
       /\ KeyPart(Content(r_stdin[i])) = KeyPart(Content(r_stdin[j]))
  /\ \E i \in 1..Len(r_stdin) : ~Accepted(r_stdin[i])

\* C3: order invariance: the output written for a stream is the output of
\* the reducer on every permutation of that stream's lines, content and
\* order alike.
C3_OrderInvariant ==
  r_pc = "done" =>
    \A p \in Permutations(1..Len(r_stdin)) :
      ReducerOutput([i \in 1..Len(r_stdin) |-> r_stdin[p[i]]]) = r_stdout

\* a finished run over three different accepted lines, two entries tied,
\* whose dict order differs from the output order
C3_Witness ==
  /\ r_pc = "done"
  /\ Len(r_stdin) >= 3
  /\ \A i, j \in 1..Len(r_stdin) : r_stdin[i] = r_stdin[j] => i = j
  /\ \A i \in 1..Len(r_stdin) : Accepted(r_stdin[i])
  /\ counts # r_stdout
  /\ \E i \in 1..(Len(r_stdout) - 1) : r_stdout[i].total = r_stdout[i + 1].total

\* C6: all-or-nothing emission: an entry is on the output only once the
\* whole input has been read, and a run ended by a failed read has written
\* no entry.
C6_AllOrNothing ==
  /\ r_stdout # <<>> => r_pc \in {"emit", "done"} /\ r_pos = Len(r_stdin)
  /\ r_pc = "crashed" => r_stdout = <<>>

\* a read failed after lines had been accumulated, with input left
C6_Witness ==
  /\ r_pc = "crashed"
  /\ counts # <<>>
  /\ 0 < r_pos /\ r_pos < Len(r_stdin)

\* a line with a value part that is not an integer (C7 as claimed)
NonIntegerValue(raw) ==
  LET l == Content(raw) IN HasTab(l) /\ ~IsIntText(ValuePart(l))

\* the same, on a line whose trimmed key is not empty (C7 as amended)
NonIntegerCount(raw) ==
  LET l == Content(raw)
  IN HasTab(l) /\ KeyPart(l) # <<>> /\ ~IsIntText(ValuePart(l))

NonIntegerDiag(raw) ==
  [tag |-> "reducer: skip non-integer count",
   preview |-> Take(Content(raw), PreviewLen)]

\* C7 (as claimed): reading a line whose value part is not an integer
\* writes one 'non-integer count' diagnostic, leaves the table unchanged and
\* goes on; the final output is that of the stream without the line.
C7_AsClaimed ==
  /\ [][(r_pc = "read" /\ r_pos' = r_pos + 1
          /\ NonIntegerValue(r_stdin[r_pos + 1]))
        => /\ counts' = counts
           /\ r_stderr' = Append(r_stderr, NonIntegerDiag(r_stdin[r_pos + 1]))
           /\ r_pc' = "read"]_vars
  /\ [](r_pc = "done" =>
         \A i \in 1..Len(r_stdin) :
           NonIntegerValue(r_stdin[i]) =>
             r_stdout = ReducerOutput(RemoveAt(r_stdin, i)))

\* C7 (amended): the same for a line whose trimmed key is not empty.
C7_NonIntegerSkipped ==
  /\ [][(r_pc = "read" /\ r_pos' = r_pos + 1
          /\ NonIntegerCount(r_stdin[r_pos + 1]))
        => /\ counts' = counts
           /\ r_stderr' = Append(r_stderr, NonIntegerDiag(r_stdin[r_pos + 1]))
           /\ r_pc' = "read"]_vars
  /\ [](r_pc = "done" =>
         \A i \in 1..Len(r_stdin) :
           NonIntegerCount(r_stdin[i]) =>
             r_stdout = ReducerOutput(RemoveAt(r_stdin, i)))

\* a finished run that skipped a non-integer count for a key nothing else
\* carried, and still wrote entries
C7_Witness ==
  /\ r_pc = "done"
  /\ r_stdout # <<>>
  /\ \E i \in 1..Len(r_stdin) :
       /\ NonIntegerCount(r_stdin[i])
       /\ \E d \in 1..Len(r_stderr) : r_stderr[d] = NonIntegerDiag(r_stdin[i])
       /\ \A e \in 1..Len(r_stdout) :
            r_stdout[e].key # KeyPart(Content(r_stdin[i]))

\* C9: every entry of the table, and every entry written, has total >= 0.
C9_TotalsNonNegative ==
  /\ \A i \in 1..Len(counts) : counts[i].total >= 0
  /\ \A i \in 1..Len(r_stdout) : r_stdout[i].total >= 0

(* ------------------------ mapper | reducer --------------------------- *)
\* a text and its line terminator
Ln(text) == text \o <<NL>>

\* {"action":<value text>}
ActionObject(v) ==
  <<"{", QUOTE, "a", "c", "t", "i", "o", "n", QUOTE, ":">> \o v \o <<"}">>

Quoted(text) == <<QUOTE>> \o text \o <<QUOTE>>

\* the lines the mapper's input streams are drawn from
MapLines ==
  { \* structured records
    Ln(ActionObject(Quoted(<<"A">>))),
    Ln(ActionObject(Quoted(<<" ", "B", " ">>))),
    Ln(ActionObject(Quoted(<<" ">>))),
    Ln(ActionObject(Quoted(<<>>))),
    Ln(ActionObject(<<"0">>)),
    Ln(ActionObject(<<"7">>)),
    Ln(ActionObject(<<"t", "r", "u", "e">>)),
    Ln(ActionObject(<<"f", "a", "l", "s", "e">>)),
    Ln(ActionObject(<<"n", "u", "l", "l">>)),
    Ln(ActionObject(<<"[", "1", "]">>)),
    Ln(ActionObject(Quoted(<<"A", BSLASH, "t", "B">>))),
    Ln(ActionObject(Quoted(<<"A", BSLASH, "n", "B">>))),
    Ln(ActionObject(Quoted(<<BSLASH, "u", "d", "8", "0", "0">>))),
    Ln(<<" ", "{", QUOTE, "a", "c", "t", "i", "o", "n", QUOTE, " ", ":", " ",
         QUOTE, "A", QUOTE, " ", "}", " ">>),
    Ln(<<"{", QUOTE, "x", QUOTE, ":", QUOTE, "A", QUOTE, "}">>),
    Ln(<<"{", QUOTE, "a", "c", "t", "i", "o", "n", QUOTE, ":", QUOTE, "A",
         QUOTE, ",", QUOTE, "m", QUOTE, ":", QUOTE, "a", "|", "b", "|", "c",
         "|", "B", QUOTE, "}">>),
    Ln(<<"{", QUOTE, "a", "c", "t", "i", "o", "n", QUOTE, ":", QUOTE, QUOTE,
         ",", QUOTE, "m", QUOTE, ":", QUOTE, "a", "|", "b", "|", "c", "|",
         "B", QUOTE, "}">>),
    Ln(ActionObject(Quoted(<<"A">>)) \o <<"|", "b", "|", "c", "|", "B">>),
    Ln(Quoted(<<"a", "|", "b", "|", "c", "|", "A">>)),
    \* delimited records
    Ln(<<"t", "|", "l", "|", "u", "|", "A", "|", "m">>),
    Ln(<<"t", "|", "l", "|", "u", "|", " ", "B", " ", "|", "m">>),
    <<"t", "|", "l", "|", "u", "|", "B">>,
    <<"t", "|", "l", "|", "u", "|", "A", CR, NL>>,
    Ln(<<"t", "|", "l", "|", "u", "|", "A", TAB, "B">>),
    Ln(<<"t", "|", "l", "|", "u">>),
    Ln(<<"t", "|", "l", "|", "u", "|", "|", "m">>),
    Ln(<<"t", "|", "l", "|", "u", "|", " ", "|", "m">>),
    \* neither
    Ln(<<"n", "o", " ", "a", "c", "t", "i", "o", "n">>),
    Ln(<<" ">>),
    Ln(<<>>) }

Init ==
  /\ m_stdin \in Streams(MapLines, MaxMapLines)
  /\ m_pos = 0 /\ m_pc = "run"
  /\ action = None
  /\ m_stdout = <<>> /\ m_stderr = <<>>
  /\ r_stdin = <<>>
  /\ r_pos = 0 /\ r_pc = "wait"
  /\ counts = <<>> /\ ranked = <<>>
  /\ r_stdout = <<>> /\ r_stderr = <<>>

Next ==
  \/ MSkip \/ MEmit \/ MError \/ MEof
  \/ Pipe
  \/ RRead \/ RReadFail \/ REof \/ REmit \/ RExit

Spec == Init /\ [][Next]_vars

(* ------------------------- claims: the mapper ------------------------- *)
RECURSIVE ExpectedPairs(_)
\* "key<TAB>1<NL>" for every line parse_line gives a key for, in line order
ExpectedPairs(lines) ==
  IF lines = <<>> THEN <<>>
  ELSE (IF parse_line(Head(lines)).ok
          THEN parse_line(Head(lines)).key \o <<TAB, "1", NL>> ELSE <<>>)
       \o ExpectedPairs(Tail(lines))

\* how many of the lines parse_line rejects
Rejected(lines) == Cardinality({i \in 1..Len(lines) : ~parse_line(lines[i]).ok})

\* C4: the mapper's output is exactly one pair (parse(line), 1) per line on
\* which the parse succeeds, in line order; a line on which it fails adds
\* no pair and one diagnostic; every line is processed up to end-of-stream.
C4_AsClaimed ==
  /\ m_stdout = ExpectedPairs(SubSeq(m_stdin, 1, m_pos))
  /\ Len(m_stderr) = Rejected(SubSeq(m_stdin, 1, m_pos))
  /\ m_pc = "done" => m_pos = Len(m_stdin)

\* C5: a key parse_line returns, and so a key the mapper writes, is never
\* empty nor whitespace-only.
C5_AsClaimed == action.ok => action.key # <<>> /\ Strip(action.key) # <<>>

\* a value that is not empty: a str, list or dict with something in it, or
\* any number or boolean; null is no value
NonEmptyValue(v) ==
  CASE v.t = "str" -> v.s # <<>>
    [] v.t \in {"int", "bool"} -> TRUE
    [] v.t = "NoneType" -> FALSE
    [] OTHER -> v.items # <<>>

\* the reference procedure of C8, step by step
ReferenceParse(raw) ==
  LET line == Content(raw)
      obj == JsonLoads(line)
      a == DictGet(obj.val.items, ActionField)
      fields == Split(line, "|")
  IN IF line = <<>> THEN None
     ELSE IF obj.ok /\ obj.val.t = "dict" /\ NonEmptyValue(a)
       THEN Some(Strip(Str(a)))
     ELSE IF Len(fields) > 3 /\ Strip(fields[4]) # <<>>
       THEN Some(Strip(fields[4]))
     ELSE None

\* C8: on every line parse_line returns what the reference procedure does:
\* empty line fails; else an object's non-empty `action`, stringified and
\* trimmed; else the trimmed non-empty 4th pipe field; else no key.
C8_AsClaimed == m_pos > 0 => action = ReferenceParse(m_stdin[m_pos])

\* the input lines on which parse_line returns key k
LinesWithKey(k) == {i \in 1..Len(m_stdin) : parse_line(m_stdin[i]) = Some(k)}

\* C10: the mapper's output fed unchanged to the reducer yields, for each
\* key K, the number of input lines on which parse_line returned K, and no
\* other entry.
C10_AsClaimed ==
  (m_pc = "done" /\ r_pc = "done") =>
    LET keys == {parse_line(m_stdin[i]).key :
                   i \in {j \in 1..Len(m_stdin) : parse_line(m_stdin[j]).ok}}
    IN /\ {r_stdout[e].key : e \in 1..Len(r_stdout)} = keys
       /\ Len(r_stdout) = Cardinality(keys)
       /\ \A e \in 1..Len(r_stdout) :
            r_stdout[e].total = Cardinality(LinesWithKey(r_stdout[e].key))

====
